---- MODULE Spec2Model ----
(***************************************************************************)
(* Dependency-graph analyzer (package_analyzer.py, final snapshot):        *)
(* the recursive graph builder build_dependency_graph_bfs and the load     *)
(* order resolver calculate_load_order of class PackageAnalyzer.           *)
(*                                                                         *)
(* The recursion of the builder is unfolded into an explicit call stack:   *)
(* a "call" frame is an invocation that has not yet passed the depth and   *)
(* cycle checks, a "loop" frame is an invocation inside its for-loop over  *)
(* the dependencies the source returned.                                   *)
(***************************************************************************)
EXTENDS Integers, Sequences, FiniteSets, TLC

(***************************************************************************)
(* Bounds of the model.                                                    *)
(***************************************************************************)
\* Package names the dependency source knows about.
Packages == {"A", "B", "C", "E"}
\* Largest number of direct dependencies of one package.
MaxDeps == 2
\* Largest number of dependency entries in the whole source.
MaxEdges == 4
\* Largest value of --max-depth explored.
MaxDepthBound == 3
\* Nesting of print_ascii_tree at which the interpreter raises RecursionError.
RecursionLimit == 6
\* Largest number of get_direct_dependencies calls in one build that is
\* deeper than MaxDepthBound.
MaxCalls == 7
\* Largest number of calculate_load_order calls on one graph.
MaxOrderCalls == 2
\* Largest value of --max-depth explored in runs that go on to the
\* demonstration of three further packages.
MaxDemoDepth == 2

\* elif args.max_depth > 10: depths above this one are warned about
LargeDepth == 10

\* an argument that was not given, a parameter left at its default None
None == "None"

\* The version constraint the source attaches to a dependency on `dep`
\* (the fixture source always answers "*", the registry any string).
VersionOf(dep) == IF dep \in {"B", "E"} THEN "^1.0" ELSE "*"

Range(s) == {s[i] : i \in DOMAIN s}

\* The answers get_direct_dependencies can give: a dict name -> version,
\* i.e. an ordered list of (name, version) pairs with pairwise distinct names.
DepLists ==
    LET names == UNION {[1..n -> Packages] : n \in 0..MaxDeps}
        inj   == {s \in names : \A i, j \in DOMAIN s : s[i] = s[j] => i = j}
    IN  {[i \in DOMAIN s |-> <<s[i], VersionOf(s[i])>>] : s \in inj}

\* The same answers as the fixture source gives them:
\* {dep: "*" for dep in dependencies}
FixtureLists == {[i \in DOMAIN d |-> <<d[i][1], "*">>] : d \in DepLists}

\* if self.args.test_repo: fixture source, else: registry source
Answers(a) == IF a.test_repo # None THEN FixtureLists ELSE DepLists

VARIABLES
    max_depth,         \* self.args.max_depth
    start_package,     \* start_package of run
    source,            \* the dependency source, as far as the build has asked it
    dependency_graph,  \* self.dependency_graph (missing key = empty list)
    all_packages,      \* self.all_packages
    cycle_detected,    \* self.cycle_detected
    load_order,        \* self.load_order
    stack,             \* call stack of build_dependency_graph_bfs, top first
    pc,                \* position of run
    in_degree,         \* local in_degree of calculate_load_order
    queue,             \* local queue of calculate_load_order
    order,             \* local load_order of calculate_load_order
    diagnostics,       \* messages printed so far
    source_calls,      \* number of get_direct_dependencies calls per package
    invocations,       \* invocations of build_dependency_graph_bfs so far
    graph_keys,        \* keys of self.dependency_graph in insertion order
    args,              \* the parsed command line, as validate_arguments reads it
    tree_stack,        \* call stack of print_ascii_tree, top first
    tree_lines,        \* lines printed by print_ascii_tree
    dot_lines,         \* dot_lines of generate_graphviz_dot
    returned,          \* the values calculate_load_order has returned so far
    flags,             \* args.load_order, args.ascii_tree, args.graphviz
    example,           \* demonstrations started (0: the analysis asked for)
    original_max_depth \* local of demonstrate_visualization_cases

vars == <<max_depth, start_package, source, dependency_graph, all_packages,
          cycle_detected, load_order, stack, pc, in_degree, queue, order,
          diagnostics, source_calls, invocations, graph_keys, args,
          tree_stack, tree_lines, dot_lines, returned, flags, example,
          original_max_depth>>

configVars == <<max_depth, start_package, args, flags, example, original_max_depth>>
buildVars == <<dependency_graph, graph_keys, all_packages, cycle_detected,
               source, diagnostics, source_calls>>
orderVars == <<in_degree, queue, order, load_order, returned>>
renderVars == <<tree_stack, tree_lines, dot_lines>>

RECURSIVE SumLen(_, _)
SumLen(src, S) ==
    IF S = {} THEN 0
    ELSE LET p == CHOOSE x \in S : TRUE
         IN  Len(src[p].deps) + SumLen(src, S \ {p})

\* Dependency entries of the source the build has seen so far.
Used == SumLen(source, Packages)

RECURSIVE Total(_, _)
Total(f, S) ==
    IF S = {} THEN 0
    ELSE LET p == CHOOSE x \in S : TRUE
         IN  f[p] + Total(f, S \ {p})

\* get_direct_dependencies calls of the build so far
Calls == Total(source_calls, Packages)

\* builds deeper than MaxDepthBound are followed for MaxCalls calls only
WithinCalls == max_depth <= MaxDepthBound \/ Calls < MaxCalls

CallFrame(p, d, path) ==
    [kind |-> "call", pkg |-> p, depth |-> d, path |-> path, rest |-> <<>>]

LoopFrame(p, d, path, deps) ==
    [kind |-> "loop", pkg |-> p, depth |-> d, path |-> path, rest |-> deps]

Init ==
    /\ max_depth \in 1..MaxDepthBound
    /\ start_package = "A"
    /\ source = [p \in Packages |-> [state |-> "unknown", deps |-> <<>>]]
    /\ dependency_graph = [p \in Packages |-> <<>>]
    /\ all_packages = {}
    /\ cycle_detected = FALSE
    /\ load_order = <<>>
    /\ stack = <<CallFrame(start_package, 0, <<>>)>>
    /\ pc = "build"
    /\ in_degree = [p \in Packages |-> 0]
    /\ queue = <<>>
    /\ order = <<>>
    /\ diagnostics = {}
    /\ source_calls = [p \in Packages |-> 0]
    /\ invocations = {}
    /\ graph_keys = <<>>
    /\ args = [package |-> "A", test_repo |-> None, url |-> "http"]
    /\ flags = [load_order |-> TRUE, ascii_tree |-> TRUE, graphviz |-> TRUE]
    /\ example = 0
    /\ original_max_depth = max_depth
    /\ tree_stack = <<>>
    /\ tree_lines = <<>>
    /\ dot_lines = <<>>
    /\ returned = <<>>

(***************************************************************************)
(* build_dependency_graph_bfs                                              *)
(***************************************************************************)
Top == Head(stack)

\* the depth check cutting one level too early
DepthExceededEarly(f) == f.depth + 1 >= max_depth

\* the depth check written with > instead of >=
DepthExceededLate(f) == f.depth > max_depth

\* if current_depth >= self.args.max_depth
DepthExceeded(f) == f.depth >= max_depth

\* the cycle check comparing with the caller only
OnPathParentOnly(f) == f.path # <<>> /\ f.pkg = f.path[Len(f.path)]

\* the cycle check against a global set of visited packages
OnPathVisited(f) == f.pkg \in all_packages

\* if start_package in path
OnPath(f) == f.pkg \in Range(f.path)

\* return from an invocation: back to the caller's loop, or to run
Return ==
    /\ stack' = Tail(stack)
    /\ pc' = IF Tail(stack) = <<>> THEN "built" ELSE "build"

Invoked(f) ==
    invocations' = invocations \cup
        {[pkg |-> f.pkg, depth |-> f.depth, revisit |-> f.pkg \in Range(f.path)]}

AtCall == pc = "build" /\ stack # <<>> /\ Top.kind = "call"
AtLoop == pc = "build" /\ stack # <<>> /\ Top.kind = "loop"

DepthReturn ==
    /\ AtCall
    /\ DepthExceeded(Top)
    /\ Invoked(Top)
    /\ Return
    /\ UNCHANGED <<configVars, renderVars, buildVars, orderVars>>

\* CycleReturn that reports the path and leaves the flag as it is
CycleReturnUnflagged ==
    /\ AtCall
    /\ ~DepthExceeded(Top)
    /\ OnPath(Top)
    /\ Invoked(Top)
    /\ diagnostics' = diagnostics \cup
          {[kind |-> "cycle", pkg |-> Top.pkg, path |-> Append(Top.path, Top.pkg)]}
    /\ Return
    /\ UNCHANGED <<configVars, renderVars, dependency_graph, graph_keys, all_packages,
                   cycle_detected, source, source_calls, orderVars>>

\* if start_package in path: flag, report, return
CycleReturn ==
    /\ AtCall
    /\ ~DepthExceeded(Top)
    /\ OnPath(Top)
    /\ Invoked(Top)
    /\ cycle_detected' = TRUE
    /\ diagnostics' = diagnostics \cup
          {[kind |-> "cycle", pkg |-> Top.pkg, path |-> Append(Top.path, Top.pkg)]}
    /\ Return
    /\ UNCHANGED <<configVars, renderVars, dependency_graph, graph_keys, all_packages,
                   source, source_calls, orderVars>>

\* get_direct_dependencies(start_package) answers with a mapping
FetchOk ==
    /\ AtCall
    /\ ~DepthExceeded(Top)
    /\ ~OnPath(Top)
    /\ Invoked(Top)
    /\ WithinCalls
    /\ \E deps \in Answers(args) :
          /\ \/ source[Top.pkg].state = "ok" /\ deps = source[Top.pkg].deps
             \/ source[Top.pkg].state = "unknown" /\ Len(deps) <= MaxEdges - Used
          /\ source' = [source EXCEPT ![Top.pkg] = [state |-> "ok", deps |-> deps]]
          /\ stack' = <<LoopFrame(Top.pkg, Top.depth, Append(Top.path, Top.pkg), deps)>>
                        \o Tail(stack)
    /\ all_packages' = all_packages \cup {Top.pkg}
    /\ source_calls' = [source_calls EXCEPT ![Top.pkg] = @ + 1]
    /\ UNCHANGED <<configVars, renderVars, dependency_graph, graph_keys, cycle_detected,
                   diagnostics, pc, orderVars>>

\* FetchFail without the try/except around the loop: the exception unwinds
\* every invocation and the build ends there
FetchFailPropagates ==
    /\ AtCall
    /\ ~DepthExceeded(Top)
    /\ ~OnPath(Top)
    /\ Invoked(Top)
    /\ WithinCalls
    /\ source[Top.pkg].state \in {"unknown", "failed"}
    /\ source' = [source EXCEPT ![Top.pkg] = [state |-> "failed", deps |-> <<>>]]
    /\ all_packages' = all_packages \cup {Top.pkg}
    /\ source_calls' = [source_calls EXCEPT ![Top.pkg] = @ + 1]
    /\ diagnostics' = diagnostics \cup
          {[kind |-> "error", pkg |-> Top.pkg, path |-> <<>>]}
    /\ stack' = <<>>
    /\ pc' = "built"
    /\ UNCHANGED <<configVars, renderVars, dependency_graph, graph_keys, cycle_detected,
                   orderVars>>

\* get_direct_dependencies(start_package) raises; the except clause reports it
FetchFail ==
    /\ AtCall
    /\ ~DepthExceeded(Top)
    /\ ~OnPath(Top)
    /\ Invoked(Top)
    /\ WithinCalls
    /\ source[Top.pkg].state \in {"unknown", "failed"}
    /\ source' = [source EXCEPT ![Top.pkg] = [state |-> "failed", deps |-> <<>>]]
    /\ all_packages' = all_packages \cup {Top.pkg}
    /\ source_calls' = [source_calls EXCEPT ![Top.pkg] = @ + 1]
    /\ diagnostics' = diagnostics \cup
          {[kind |-> "error", pkg |-> Top.pkg, path |-> <<>>]}
    /\ Return
    /\ UNCHANGED <<configVars, renderVars, dependency_graph, graph_keys, cycle_detected,
                   orderVars>>

\* self.dependency_graph[k]: the defaultdict creates the key on first access
WithKey(keys, k) == IF k \in Range(keys) THEN keys ELSE Append(keys, k)

\* RecordEdge with the edge left out when the dependency is on the current path
RecordEdgeSkipBack ==
    /\ AtLoop
    /\ Top.rest # <<>>
    /\ LET e == Head(Top.rest)
       IN  /\ dependency_graph' =
                 IF e[1] \in Range(Top.path) THEN dependency_graph
                 ELSE [dependency_graph EXCEPT ![Top.pkg] = Append(@, e)]
           /\ graph_keys' = IF e[1] \in Range(Top.path) THEN graph_keys
                            ELSE WithKey(graph_keys, Top.pkg)
           /\ all_packages' = all_packages \cup {e[1]}
           /\ stack' = <<CallFrame(e[1], Top.depth + 1, Top.path),
                         [Top EXCEPT !.rest = Tail(Top.rest)]>> \o Tail(stack)
    /\ UNCHANGED <<configVars, renderVars, cycle_detected, source, diagnostics,
                   source_calls, invocations, pc, orderVars>>

\* RecordEdge appending (start_package, version) instead of (dep_package, version)
RecordEdgeSelf ==
    /\ AtLoop
    /\ Top.rest # <<>>
    /\ LET e == Head(Top.rest)
       IN  /\ dependency_graph' =
                 [dependency_graph EXCEPT ![Top.pkg] = Append(@, <<Top.pkg, e[2]>>)]
           /\ graph_keys' = WithKey(graph_keys, Top.pkg)
           /\ all_packages' = all_packages \cup {e[1]}
           /\ stack' = <<CallFrame(e[1], Top.depth + 1, Top.path),
                         [Top EXCEPT !.rest = Tail(Top.rest)]>> \o Tail(stack)
    /\ UNCHANGED <<configVars, renderVars, cycle_detected, source, diagnostics,
                   source_calls, invocations, pc, orderVars>>

\* one iteration of the for-loop: record the edge, then recurse
RecordEdge ==
    /\ AtLoop
    /\ Top.rest # <<>>
    /\ LET e == Head(Top.rest)
       IN  /\ dependency_graph' =
                 [dependency_graph EXCEPT ![Top.pkg] = Append(@, e)]
           /\ graph_keys' = WithKey(graph_keys, Top.pkg)
           /\ all_packages' = all_packages \cup {e[1]}
           /\ stack' = <<CallFrame(e[1], Top.depth + 1, Top.path),
                         [Top EXCEPT !.rest = Tail(Top.rest)]>> \o Tail(stack)
    /\ UNCHANGED <<configVars, renderVars, cycle_detected, source, diagnostics,
                   source_calls, invocations, pc, orderVars>>

\* the for-loop is exhausted
LoopDone ==
    /\ AtLoop
    /\ Top.rest = <<>>
    /\ Return
    /\ UNCHANGED <<configVars, renderVars, buildVars, invocations, orderVars>>

(***************************************************************************)
(* The builder as a function of a source that never raises: what one       *)
(* invocation adds to st = [graph, all, cycle].                            *)
(***************************************************************************)
RECURSIVE Expand(_, _, _, _, _)
RECURSIVE ExpandDeps(_, _, _, _, _, _)
Expand(src, p, d, path, st) ==
    IF d >= max_depth THEN st
    ELSE IF p \in Range(path) THEN [st EXCEPT !.cycle = TRUE]
    ELSE ExpandDeps(src, p, d, Append(path, p), src[p],
                    [st EXCEPT !.all = @ \cup {p}])

ExpandDeps(src, p, d, current_path, deps, st) ==
    IF deps = <<>> THEN st
    ELSE LET e == Head(deps)
             recorded == [st EXCEPT !.graph[p] = Append(@, e),
                                    !.all = @ \cup {e[1]}]
         IN  ExpandDeps(src, p, d, current_path, Tail(deps),
                        Expand(src, e[1], d + 1, current_path, recorded))

Build == DepthReturn \/ CycleReturn \/ FetchOk \/ FetchFail \/ RecordEdge \/ LoopDone

\* one top-level build, which runs on as long as it has a step to take
SpecBuild == Init /\ [][Build]_vars /\ WF_vars(Build)

(***************************************************************************)
(* calculate_load_order                                                    *)
(***************************************************************************)
\* number of entries (dep, _) with dep = n in the list deps
RECURSIVE Occurrences(_, _)
Occurrences(deps, n) ==
    IF deps = <<>> THEN 0
    ELSE (IF Head(deps)[1] = n THEN 1 ELSE 0) + Occurrences(Tail(deps), n)

RECURSIVE EntriesInto(_, _, _)
EntriesInto(graph, S, n) ==
    IF S = {} THEN 0
    ELSE LET p == CHOOSE x \in S : TRUE
         IN  Occurrences(graph[p], n) + EntriesInto(graph, S \ {p}, n)

\* in_degree counting each pair (node, dep) once, however often it is stored
InDegreeDistinct(graph) ==
    [n \in Packages |->
        Cardinality({p \in Packages : Occurrences(graph[p], n) > 0})]

\* in_degree after the two counting loops: every recorded entry (node, dep)
\* adds one to in_degree[dep]; nodes never pointed at get 0
InDegree(graph) == [n \in Packages |-> EntriesInto(graph, Packages, n)]

\* the orders in which iterating over the set S can produce its elements
Orderings(S) ==
    {s \in [1..Cardinality(S) -> S] : \A i, j \in DOMAIN s : s[i] = s[j] => i = j}

\* the neighbour enqueued at every decrement
BecomesReadyAlways(d) == TRUE

\* if in_degree[neighbor] == 0
BecomesReady(d) == d = 0

\* Relax with the ready neighbour put at the front of the queue
RECURSIVE RelaxLifo(_, _, _)
RelaxLifo(deg, q, nbrs) ==
    IF nbrs = <<>> THEN [deg |-> deg, q |-> q]
    ELSE LET n == Head(nbrs)[1]
             d == deg[n] - 1
         IN  RelaxLifo([deg EXCEPT ![n] = d],
                       IF BecomesReady(d) THEN <<n>> \o q ELSE q,
                       Tail(nbrs))

\* the inner for-loop over the neighbours of the dequeued node
RECURSIVE Relax(_, _, _)
Relax(deg, q, nbrs) ==
    IF nbrs = <<>> THEN [deg |-> deg, q |-> q]
    ELSE LET n == Head(nbrs)[1]
             d == deg[n] - 1
         IN  Relax([deg EXCEPT ![n] = d],
                   IF BecomesReady(d) THEN Append(q, n) ELSE q,
                   Tail(nbrs))

\* the queue seeded with every node
SeedsAll(deg, nodes) == nodes

\* the nodes the queue is seeded with
Seeds(deg, nodes) == {n \in nodes : deg[n] = 0}

\* entry of calculate_load_order up to the while loop
CalculateLoadOrder ==
    /\ pc \in {"built", "ordered"}
    /\ Len(returned) < MaxOrderCalls
    /\ in_degree' = InDegree(dependency_graph)
    /\ queue' \in Orderings(Seeds(in_degree', all_packages))
    /\ order' = <<>>
    /\ pc' = "kahn"
    /\ UNCHANGED <<configVars, renderVars, buildVars, invocations, stack, load_order,
                   returned>>

\* KahnStep consuming the graph: the edges of the dequeued node are removed
KahnStepDestructive ==
    /\ pc = "kahn"
    /\ queue # <<>>
    /\ LET current == Head(queue)
           r == Relax(in_degree, Tail(queue), dependency_graph[current])
       IN  /\ order' = Append(order, current)
           /\ in_degree' = r.deg
           /\ queue' = r.q
           /\ dependency_graph' = [dependency_graph EXCEPT ![current] = <<>>]
    /\ UNCHANGED <<configVars, renderVars, graph_keys, all_packages, cycle_detected,
                   source, diagnostics, source_calls, invocations, stack,
                   load_order, returned, pc>>

\* one iteration of the while loop
KahnStep ==
    /\ pc = "kahn"
    /\ queue # <<>>
    /\ LET current == Head(queue)
           r == Relax(in_degree, Tail(queue), dependency_graph[current])
       IN  /\ order' = Append(order, current)
           /\ in_degree' = r.deg
           /\ queue' = r.q
    /\ UNCHANGED <<configVars, renderVars, buildVars, invocations, stack, load_order,
                   returned, pc>>

\* the queue is empty: self.load_order = load_order; return load_order
LoadOrderReturn ==
    /\ pc = "kahn"
    /\ queue = <<>>
    /\ load_order' = order
    /\ returned' = Append(returned, order)
    /\ pc' = "ordered"
    /\ UNCHANGED <<configVars, renderVars, buildVars, invocations, stack,
                   in_degree, queue, order>>

LoadOrder == CalculateLoadOrder \/ KahnStep \/ LoadOrderReturn

(***************************************************************************)
(* print_ascii_tree                                                        *)
(* A printed line is the sequence of the pieces the f-string joins.        *)
(***************************************************************************)
\* the box-drawing corner, two dashes and a space
ConnectorLast == "+-- "
\* the box-drawing tee, two dashes and a space
ConnectorMid == "|-- "
\* four spaces
IndentLast == "    "
\* the box-drawing bar and three spaces
IndentMid == "|   "

TreeCall(node, prefix, is_last) ==
    [kind |-> "call", node |-> node, prefix |-> prefix, is_last |-> is_last,
     deps |-> <<>>, i |-> 0]

TreeLoop(node, new_prefix, deps) ==
    [kind |-> "loop", node |-> node, prefix |-> new_prefix, is_last |-> FALSE,
     deps |-> deps, i |-> 1]

\* the two heading lines printed by the outermost call
TreeHeader == << <<"tree of", start_package>>, <<"=">> >>

\* the connector swapped between last and other children
ConnectorSwapped(is_last) == IF is_last THEN ConnectorMid ELSE ConnectorLast

\* connector = "+-- " if is_last else "|-- "
Connector(is_last) == IF is_last THEN ConnectorLast ELSE ConnectorMid

\* new_prefix = prefix + ("    " if is_last else "|   ")
NewPrefix(prefix, is_last) ==
    Append(prefix, IF is_last THEN IndentLast ELSE IndentMid)

\* print(f"{prefix}{connector}{current_node}")
TreeLine(prefix, is_last, current_node) ==
    prefix \o <<Connector(is_last), current_node>>

TreeTop == Head(tree_stack)

TreeReturn ==
    /\ tree_stack' = Tail(tree_stack)
    /\ pc' = IF Tail(tree_stack) = <<>> THEN "rendered" ELSE "tree"

\* run calls self.print_ascii_tree(start_package)
PrintAsciiTree ==
    /\ pc = "built"
    /\ pc' = "tree"
    /\ tree_stack' = <<TreeCall(None, <<>>, TRUE)>>
    /\ tree_lines' = <<>>
    /\ UNCHANGED <<configVars, buildVars, invocations, stack, orderVars, dot_lines>>

\* an invocation up to its for-loop: heading, own line, leaf check
TreeVisit ==
    /\ pc = "tree"
    /\ TreeTop.kind = "call"
    /\ LET first        == TreeTop.node = None
           current_node == IF first THEN start_package ELSE TreeTop.node
           dependencies == dependency_graph[current_node]
       IN  /\ tree_lines' = tree_lines
                 \o (IF first THEN TreeHeader ELSE <<>>)
                 \o <<TreeLine(TreeTop.prefix, TreeTop.is_last, current_node)>>
           /\ IF dependencies = <<>>
              THEN TreeReturn
              ELSE /\ tree_stack' =
                        <<TreeLoop(current_node,
                                   NewPrefix(TreeTop.prefix, TreeTop.is_last),
                                   dependencies)>> \o Tail(tree_stack)
                   /\ pc' = "tree"
    /\ UNCHANGED <<configVars, buildVars, invocations, stack, orderVars, dot_lines>>

\* one iteration of the for-loop: is_last_child, version_info (computed and
\* not passed on), the recursive call
TreeChild ==
    /\ pc = "tree"
    /\ TreeTop.kind = "loop"
    /\ TreeTop.i <= Len(TreeTop.deps)
    /\ Len(tree_stack) < RecursionLimit
    /\ LET dep           == TreeTop.deps[TreeTop.i][1]
           is_last_child == TreeTop.i = Len(TreeTop.deps)
       IN  tree_stack' = <<TreeCall(dep, TreeTop.prefix, is_last_child),
                           [TreeTop EXCEPT !.i = @ + 1]>> \o Tail(tree_stack)
    /\ UNCHANGED <<configVars, buildVars, invocations, stack, orderVars, pc,
                   tree_lines, dot_lines>>

\* the recursive call exceeds the interpreter's limit: RecursionError unwinds
\* to the except clause of run, which prints it and exits with status 1
TreeOverflow ==
    /\ pc = "tree"
    /\ TreeTop.kind = "loop"
    /\ TreeTop.i <= Len(TreeTop.deps)
    /\ Len(tree_stack) >= RecursionLimit
    /\ tree_stack' = <<>>
    /\ pc' = "failed"
    /\ diagnostics' = diagnostics \cup
          {[kind |-> "fatal", pkg |-> TreeTop.node, path |-> <<>>]}
    /\ UNCHANGED <<configVars, dependency_graph, graph_keys, all_packages,
                   cycle_detected, source, source_calls, invocations, stack,
                   orderVars, tree_lines, dot_lines>>

\* the for-loop is exhausted
TreeLoopDone ==
    /\ pc = "tree"
    /\ TreeTop.kind = "loop"
    /\ TreeTop.i > Len(TreeTop.deps)
    /\ TreeReturn
    /\ UNCHANGED <<configVars, buildVars, invocations, stack, orderVars,
                   tree_lines, dot_lines>>

Tree == PrintAsciiTree \/ TreeVisit \/ TreeChild \/ TreeOverflow \/ TreeLoopDone

(***************************************************************************)
(* generate_graphviz_dot                                                   *)
(* A line of the description is a record: kind, the node(s) it names and   *)
(* the attribute or label it carries.                                      *)
(***************************************************************************)
DotText(t, x) == [kind |-> t, a |-> x, b |-> "", label |-> ""]

StartFill == "fillcolor=orange, style=filled,bold"

\* f'    "{start_package}" [fillcolor=orange, style="filled,bold"];'
DotStartNode(p) == [kind |-> "node", a |-> p, b |-> "", label |-> StartFill]

\* f'    "{package}";'
DotNode(p) == [kind |-> "node", a |-> p, b |-> "", label |-> ""]

\* f'    "{source}" -> "{target}" [label="{version}"];'
DotEdge(u, e) == [kind |-> "edge", a |-> u, b |-> e[1], label |-> e[2]]

DotPreamble ==
    << DotText("open", "digraph DependencyGraph"),
       DotText("attr", "rankdir=TB"),
       DotText("attr", "node [shape=box, style=filled, fillcolor=lightblue]"),
       DotText("attr", "edge [color=darkgreen]"),
       DotText("blank", ""),
       DotText("comment", start_package),
       DotText("comment", ToString(max_depth)),
       DotText("comment", ToString(Cardinality(all_packages))),
       DotText("blank", "") >>

\* the loop over all_packages without the test package != start_package
OtherNodesAll(nodes, start) == nodes

\* the loop running over the keys of the graph instead of all_packages
OtherNodesKeysOnly(nodes, start) == Range(graph_keys) \ {start}

\* for package in self.all_packages: if package != start_package
OtherNodes(nodes, start) == nodes \ {start}

\* for source, dependencies in self.dependency_graph.items():
\*     for target, version in dependencies
RECURSIVE DotEdges(_, _)
DotEdges(keys, graph) ==
    IF keys = <<>> THEN <<>>
    ELSE [i \in DOMAIN graph[Head(keys)] |-> DotEdge(Head(keys), graph[Head(keys)][i])]
         \o DotEdges(Tail(keys), graph)

DotCycleNote ==
    << DotText("blank", ""), DotText("comment", "cycles"),
       DotText("attr", "edge [color=red, style=bold]") >>

GenerateGraphvizDot ==
    /\ pc \in {"built", "rendered"}
    /\ pc' = "dot"
    /\ \E others \in Orderings(OtherNodes(all_packages, start_package)) :
          dot_lines' = DotPreamble
                \o <<DotStartNode(start_package)>>
                \o [i \in DOMAIN others |-> DotNode(others[i])]
                \o <<DotText("blank", ""), DotText("comment", "edges")>>
                \o DotEdges(graph_keys, dependency_graph)
                \o (IF cycle_detected THEN DotCycleNote ELSE <<>>)
                \o <<DotText("close", "")>>
    /\ UNCHANGED <<configVars, buildVars, invocations, stack, orderVars,
                   tree_stack, tree_lines>>

Next == Build \/ LoadOrder \/ Tree \/ GenerateGraphvizDot

(***************************************************************************)
(* run from the parsed command line to the end of the build                *)
(***************************************************************************)
\* args.url.startswith(('http://', 'https://')), for a url that is given
HasHttpScheme(url) == url = "http"

\* os.path.exists(args.test_repo)
Exists(path) == path = "present"

\* validate_arguments without the check of max_depth
ValidationErrorsNoDepth(a, depth) ==
    {e \in {"neither", "both", "url", "fixture"} :
        \/ e = "neither" /\ a.package = None /\ a.test_repo = None
        \/ e = "both" /\ a.package # None /\ a.test_repo # None
        \/ e = "url" /\ ~HasHttpScheme(a.url)
        \/ e = "fixture" /\ a.test_repo # None /\ ~Exists(a.test_repo)}

\* validate_arguments with every depth above LargeDepth refused
ValidationErrorsLargeDepth(a, depth) ==
    {e \in {"neither", "both", "depth", "url", "fixture"} :
        \/ e = "neither" /\ a.package = None /\ a.test_repo = None
        \/ e = "both" /\ a.package # None /\ a.test_repo # None
        \/ e = "depth" /\ (depth < 1 \/ depth > LargeDepth)
        \/ e = "url" /\ ~HasHttpScheme(a.url)
        \/ e = "fixture" /\ a.test_repo # None /\ ~Exists(a.test_repo)}

\* validate_arguments: the list errors, one tag per message
ValidationErrors(a, depth) ==
    {e \in {"neither", "both", "depth", "url", "fixture"} :
        \/ e = "neither" /\ a.package = None /\ a.test_repo = None
        \/ e = "both" /\ a.package # None /\ a.test_repo # None
        \/ e = "depth" /\ depth < 1
        \/ e = "url" /\ ~HasHttpScheme(a.url)
        \/ e = "fixture" /\ a.test_repo # None /\ ~Exists(a.test_repo)}

\* elif args.max_depth > 10: print(warning)
ValidationWarnings(depth) ==
    IF depth >= 1 /\ depth > LargeDepth
    THEN {[kind |-> "warning", pkg |-> "depth", path |-> <<>>]} ELSE {}

\* start_package = args.package if args.package else "A"
StartPackage(a) == IF a.package # None THEN a.package ELSE "A"

\* run: validate the arguments, leave with status 1 on errors, else start
\* the build
Validate ==
    /\ pc = "start"
    /\ LET errors == ValidationErrors(args, max_depth)
       IN  /\ diagnostics' = diagnostics \cup ValidationWarnings(max_depth) \cup
                 {[kind |-> "config", pkg |-> e, path |-> <<>>] : e \in errors}
           /\ IF errors # {}
              THEN /\ pc' = "exit1"
                   /\ UNCHANGED <<start_package, stack>>
              ELSE /\ pc' = "build"
                   /\ start_package' = StartPackage(args)
                   /\ stack' = <<CallFrame(StartPackage(args), 0, <<>>)>>
    /\ UNCHANGED <<max_depth, args, flags, example, original_max_depth, renderVars,
                   dependency_graph, graph_keys, all_packages, cycle_detected,
                   source, source_calls, invocations, orderVars>>

\* get_direct_dependencies(start_package) for a package the source does not
\* have: the registry answers 404 and fetch_package_info raises, the fixture
\* source answers test_data.get(package_name, []), the empty mapping
FetchAbsent ==
    /\ AtCall
    /\ ~DepthExceeded(Top)
    /\ ~OnPath(Top)
    /\ Invoked(Top)
    /\ WithinCalls
    /\ source[Top.pkg].state \in {"unknown", "absent"}
    /\ source' = [source EXCEPT ![Top.pkg] = [state |-> "absent", deps |-> <<>>]]
    /\ all_packages' = all_packages \cup {Top.pkg}
    /\ source_calls' = [source_calls EXCEPT ![Top.pkg] = @ + 1]
    /\ IF args.test_repo # None
       THEN /\ stack' = <<LoopFrame(Top.pkg, Top.depth, Append(Top.path, Top.pkg),
                                    <<>>)>> \o Tail(stack)
            /\ UNCHANGED <<diagnostics, pc>>
       ELSE /\ diagnostics' = diagnostics \cup
                  {[kind |-> "error", pkg |-> Top.pkg, path |-> <<>>]}
            /\ Return
    /\ UNCHANGED <<configVars, renderVars, dependency_graph, graph_keys, cycle_detected,
                   orderVars>>

\* the command lines explored: a package name or none, no fixture file, one
\* that is missing or one that exists, a url with an http(s) scheme or with
\* another one, and a depth below 1, small, or around LargeDepth
InitRun ==
    /\ max_depth \in (0..MaxDepthBound) \cup {LargeDepth, LargeDepth + 1}
    /\ args \in [package : {None, "A", "B"},
                  test_repo : {None, "missing", "present"},
                  url : {"http", "other"}]
    /\ flags = [load_order |-> FALSE, ascii_tree |-> FALSE, graphviz |-> FALSE]
    /\ example = 0
    /\ original_max_depth = max_depth
    /\ start_package = None
    /\ source = [p \in Packages |-> [state |-> "unknown", deps |-> <<>>]]
    /\ dependency_graph = [p \in Packages |-> <<>>]
    /\ all_packages = {}
    /\ cycle_detected = FALSE
    /\ load_order = <<>>
    /\ stack = <<>>
    /\ pc = "start"
    /\ in_degree = [p \in Packages |-> 0]
    /\ queue = <<>>
    /\ order = <<>>
    /\ diagnostics = {}
    /\ source_calls = [p \in Packages |-> 0]
    /\ invocations = {}
    /\ graph_keys = <<>>
    /\ tree_stack = <<>>
    /\ tree_lines = <<>>
    /\ dot_lines = <<>>
    /\ returned = <<>>

NextRun == Validate \/ Build \/ FetchAbsent

SpecRun == InitRun /\ [][NextRun]_vars

Spec == Init /\ [][Next]_vars

(***************************************************************************)
(* run after the build: load order, visualisation, demonstration           *)
(***************************************************************************)
\* demonstration_packages of demonstrate_visualization_cases
DemonstrationPackages == <<"A", "C", "E">>

\* if args.load_order, in the analysis that was asked for
LoadOrderWanted == example = 0 /\ flags.load_order

\* if args.load_order: self.calculate_load_order(start_package)
RunLoadOrder ==
    /\ pc = "built"
    /\ LoadOrderWanted
    /\ CalculateLoadOrder

\* self.print_load_order(start_package): the final snapshot defines no such
\* method, the call raises AttributeError, run prints it and exits with 1
PrintLoadOrder ==
    /\ pc = "ordered"
    /\ pc' = "failed"
    /\ diagnostics' = diagnostics \cup
          {[kind |-> "fatal", pkg |-> "print_load_order", path |-> <<>>]}
    /\ UNCHANGED <<configVars, renderVars, dependency_graph, graph_keys,
                   all_packages, cycle_detected, source, source_calls,
                   invocations, stack, orderVars>>

\* if args.ascii_tree: self.print_ascii_tree(start_package)
RunPrintAsciiTree ==
    /\ ~LoadOrderWanted
    /\ flags.ascii_tree
    /\ PrintAsciiTree

\* if args.graphviz: dot_content = self.generate_graphviz_dot(start_package)
RunGraphviz ==
    /\ ~LoadOrderWanted
    /\ pc = "built" => ~flags.ascii_tree
    /\ flags.graphviz
    /\ GenerateGraphvizDot

\* both visualisation branches of the current analysis are behind
Visualised ==
    /\ ~LoadOrderWanted
    /\ \/ pc = "dot"
       \/ pc = "rendered" /\ ~flags.graphviz
       \/ pc = "built" /\ ~flags.ascii_tree /\ ~flags.graphviz

\* the state reset at the head of the demonstration loop, without
\* self.all_packages.clear()
ResetKeepsPackages ==
    /\ dependency_graph' = [p \in Packages |-> <<>>]
    /\ graph_keys' = <<>>
    /\ cycle_detected' = FALSE
    /\ load_order' = <<>>
    /\ all_packages' = all_packages

\* self.dependency_graph.clear(); self.cycle_detected = False;
\* self.load_order = []; self.all_packages.clear()
Reset ==
    /\ dependency_graph' = [p \in Packages |-> <<>>]
    /\ graph_keys' = <<>>
    /\ cycle_detected' = FALSE
    /\ load_order' = <<>>
    /\ all_packages' = {}

\* if args.test_repo: demonstrate_visualization_cases, one pass of its loop
\* up to the call of the builder (the first pass saves max_depth before)
DemoNext ==
    /\ Visualised
    /\ args.test_repo # None
    /\ example < Len(DemonstrationPackages)
    /\ example' = example + 1
    /\ original_max_depth' = IF example = 0 THEN max_depth ELSE original_max_depth
    /\ Reset
    /\ start_package' = DemonstrationPackages[example + 1]
    /\ stack' = <<CallFrame(DemonstrationPackages[example + 1], 0, <<>>)>>
    /\ pc' = "build"
    /\ source_calls' = [p \in Packages |-> 0]
    /\ invocations' = {}
    /\ tree_lines' = <<>>
    /\ dot_lines' = <<>>
    /\ UNCHANGED <<max_depth, args, flags, source, diagnostics, tree_stack,
                   in_degree, queue, order, returned>>

\* the demonstration loop is exhausted:
\* self.args.max_depth = original_max_depth, then the closing message of run
DemoDone ==
    /\ Visualised
    /\ args.test_repo # None
    /\ example = Len(DemonstrationPackages)
    /\ max_depth' = original_max_depth
    /\ pc' = "done"
    /\ UNCHANGED <<start_package, args, flags, example, original_max_depth,
                   renderVars, buildVars, invocations, stack, orderVars>>

\* without a fixture there is no demonstration: the closing message of run
Finish ==
    /\ Visualised
    /\ args.test_repo = None
    /\ pc' = "done"
    /\ UNCHANGED <<configVars, renderVars, buildVars, invocations, stack, orderVars>>

\* the valid command lines: a package from the registry or a fixture file,
\* with any choice of the three output switches
InitStages ==
    /\ max_depth \in 1..MaxDemoDepth
    /\ args \in {[package |-> "A", test_repo |-> None, url |-> "http"],
                  [package |-> None, test_repo |-> "present", url |-> "http"]}
    /\ flags \in [load_order : BOOLEAN, ascii_tree : BOOLEAN, graphviz : BOOLEAN]
    /\ example = 0
    /\ original_max_depth = max_depth
    /\ start_package = None
    /\ source = [p \in Packages |-> [state |-> "unknown", deps |-> <<>>]]
    /\ dependency_graph = [p \in Packages |-> <<>>]
    /\ all_packages = {}
    /\ cycle_detected = FALSE
    /\ load_order = <<>>
    /\ stack = <<>>
    /\ pc = "start"
    /\ in_degree = [p \in Packages |-> 0]
    /\ queue = <<>>
    /\ order = <<>>
    /\ diagnostics = {}
    /\ source_calls = [p \in Packages |-> 0]
    /\ invocations = {}
    /\ graph_keys = <<>>
    /\ tree_stack = <<>>
    /\ tree_lines = <<>>
    /\ dot_lines = <<>>
    /\ returned = <<>>

NextStages ==
    \/ Validate \/ Build \/ FetchAbsent
    \/ RunLoadOrder \/ KahnStep \/ LoadOrderReturn \/ PrintLoadOrder
    \/ RunPrintAsciiTree \/ TreeVisit \/ TreeChild \/ TreeOverflow \/ TreeLoopDone
    \/ RunGraphviz
    \/ DemoNext \/ DemoDone \/ Finish

SpecStages == InitStages /\ [][NextStages]_vars

(***************************************************************************)
(* Graph notions used by the properties.                                   *)
(***************************************************************************)
Targets(g, u) == {g[u][i][1] : i \in DOMAIN g[u]}

Edges(g) == {e \in Packages \X Packages : e[2] \in Targets(g, e[1])}

Successors(g, S) == UNION {Targets(g, u) : u \in S}

\* the nodes reachable from S by zero or more edges
RECURSIVE Closure(_, _)
Closure(g, S) ==
    LET n == S \cup Successors(g, S)
    IN  IF n = S THEN S ELSE Closure(g, n)

OnCycle(g, p) == p \in Closure(g, Targets(g, p))

HasCycle(g) == \E p \in Packages : OnCycle(g, p)

\* the nodes reachable from S by at most k edges
RECURSIVE Within(_, _, _)
Within(g, S, k) ==
    IF k = 0 THEN S ELSE Within(g, S \cup Successors(g, S), k - 1)

SetMax(S) == CHOOSE m \in S : \A x \in S : x <= m

\* number of edges of the longest path from u that visits no node twice
\* and avoids the nodes of seen
RECURSIVE Longest(_, _, _)
Longest(g, u, seen) ==
    LET nxt == Targets(g, u) \ seen
    IN  IF nxt = {} THEN 0
        ELSE SetMax({1 + Longest(g, v, seen \cup {v}) : v \in nxt})

\* the dependency relation of the source, as far as the build has seen it
SourceGraph == [p \in Packages |-> source[p].deps]

Cycles == {d \in diagnostics : d.kind = "cycle"}

\* the package the cycle report d was raised for, and the caller that passed it
Revisited(d) == d.pkg
Caller(d) == d.path[Len(d.path) - 1]

(***************************************************************************)
(* C1                                                                      *)
(***************************************************************************)
\* C1 as stated: after the build, for every cycle the builder detected on a
\* package p invoked from q, the edge q -> p is not in the dependency graph.
C1_ClosingEdgeAbsent ==
    pc = "built" =>
        \A d \in Cycles : <<Caller(d), Revisited(d)>> \notin Edges(dependency_graph)

\* C1 amended: whenever the builder has detected a cycle on a package p
\* invoked from q, the closing edge q -> p is in the dependency graph (the
\* loop of q recorded it before the invocation on p was made), and it is
\* still there after the build.
C1_ClosingEdgeStored ==
    \A d \in Cycles : <<Caller(d), Revisited(d)>> \in Edges(dependency_graph)

\* the source A:[B], B:[A] built from A with max depth 3: the cycle
\* A -> B -> A is reported and both A -> B and B -> A are stored
C1_Witness ==
    /\ pc = "built"
    /\ max_depth = 3
    /\ source["A"].deps = <<<<"B", "^1.0">>>>
    /\ source["B"].deps = <<<<"A", "*">>>>
    /\ [kind |-> "cycle", pkg |-> "A", path |-> <<"A", "B", "A">>] \in diagnostics
    /\ dependency_graph["A"] = <<<<"B", "^1.0">>>>
    /\ dependency_graph["B"] = <<<<"A", "*">>>>

(***************************************************************************)
(* C2                                                                      *)
(***************************************************************************)
\* C2 as stated: if the build invoked the expansion on a package already on
\* the current path, at whatever depth, the Cycle Flag is true when the
\* build has finished.
C2_AnyRevisitFlagged ==
    (pc = "built" /\ \E i \in invocations : i.revisit) => cycle_detected

\* C2 amended: if the build invoked the expansion on a package already on
\* the current path at a depth below max_depth, the Cycle Flag is true from
\* then on, in particular when the build has finished; a revisit at depth
\* max_depth returns on the depth check and sets nothing.
C2_RevisitBelowDepthFlagged ==
    (\E i \in invocations : i.revisit /\ i.depth < max_depth) => cycle_detected

C2_Witness ==
    /\ pc = "built"
    /\ cycle_detected
    /\ \E i \in invocations : i.revisit /\ i.depth < max_depth
    /\ \E i \in invocations : i.revisit /\ i.depth = max_depth

(***************************************************************************)
(* C3                                                                      *)
(***************************************************************************)
\* C3 as stated: after the build no path of recorded edges that starts at
\* the start package has more than max_depth edges.
C3_NoLongPath ==
    pc = "built" =>
        Longest(dependency_graph, start_package, {start_package}) <= max_depth

\* C3 amended: every recorded package is reached from the start package by
\* some path of at most max_depth recorded edges (a longer path of recorded
\* edges can exist when a package is expanded at several depths, since the
\* edges are keyed by package name).
C3_WithinMaxDepth ==
    all_packages \subseteq Within(dependency_graph, {start_package}, max_depth)

\* C is recorded at distance 1 and at distance 2 from A, D at distance
\* max_depth, and the path A -> B -> C -> D has max_depth + 1 edges
C3_Witness ==
    /\ pc = "built"
    /\ max_depth = 2
    /\ Edges(dependency_graph) =
          {<<"A", "B">>, <<"A", "C">>, <<"B", "C">>, <<"C", "E">>}
    /\ "E" \notin Within(dependency_graph, {start_package}, max_depth - 1)

(***************************************************************************)
(* C4                                                                      *)
(***************************************************************************)
\* C4 as stated: after any build the stored graph has no directed cycle.
C4_StoredGraphAcyclic ==
    pc = "built" => ~HasCycle(dependency_graph)

\* C4 amended: after any build the stored graph has a directed cycle only
\* if the dependency relation of the source has one, and it does have one
\* whenever the builder detected a cycle (the back-edge is stored).
C4_StoredCycleIffSourceCycle ==
    pc = "built" =>
        /\ HasCycle(dependency_graph) => HasCycle(SourceGraph)
        /\ cycle_detected => HasCycle(dependency_graph)

\* a build that detected a cycle and stored one, next to an acyclic part
C4_Witness ==
    /\ pc = "built"
    /\ cycle_detected
    /\ HasCycle(dependency_graph)
    /\ \E p \in all_packages : ~OnCycle(dependency_graph, p)
(***************************************************************************)
(* C5                                                                      *)
(***************************************************************************)
Positions(x) == {i \in DOMAIN load_order : load_order[i] = x}

\* C5: when the stored graph has no directed cycle, the sequence returned by
\* calculate_load_order contains every recorded package, and for every
\* recorded edge u -> v (also one stored several times) u comes before v.
C5_TopologicalOrder ==
    (pc = "ordered" /\ ~HasCycle(dependency_graph)) =>
        /\ Range(load_order) = all_packages
        /\ \A e \in Edges(dependency_graph) :
              \A i \in Positions(e[1]), j \in Positions(e[2]) : i < j

\* an acyclic graph of four packages in which one edge is stored twice
C5_Witness ==
    /\ pc = "ordered"
    /\ ~HasCycle(dependency_graph)
    /\ Len(load_order) = 4
    /\ \E p \in Packages : \E i, j \in DOMAIN dependency_graph[p] :
          i < j /\ dependency_graph[p][i] = dependency_graph[p][j]

(***************************************************************************)
(* C6                                                                      *)
(***************************************************************************)
\* the nodes left with nonzero in-degree
Residual == {n \in all_packages : in_degree[n] # 0}

\* C6: when calculate_load_order has returned and some node still has a
\* nonzero in-degree, a message has been printed that reports exactly the
\* set of nodes with nonzero in-degree.
C6_ResidualReported ==
    (pc = "ordered" /\ Residual # {}) =>
        \E d \in diagnostics : d.kind = "residual" /\ Range(d.path) = Residual

(***************************************************************************)
(* C7                                                                      *)
(***************************************************************************)
\* C7 as stated: after the build, calculate_load_order leaves no node with
\* nonzero in-degree and returns every recorded package.
C7_LoadOrderComplete ==
    pc = "ordered" => (Residual = {} /\ Range(load_order) = all_packages)

\* the recorded packages that lie on a stored cycle or are reachable from one
Downstream ==
    {n \in all_packages :
        \E c \in Packages : OnCycle(dependency_graph, c)
                             /\ n \in Closure(dependency_graph, {c})}

\* C7 amended: after the build, calculate_load_order leaves with nonzero
\* in-degree exactly the recorded packages that lie on a stored directed
\* cycle or are reachable from one, and returns exactly the other recorded
\* packages; so it returns every package iff the stored graph is acyclic.
C7_LoadOrderOmitsCycles ==
    pc = "ordered" =>
        /\ Residual = Downstream
        /\ Range(load_order) = all_packages \ Downstream

\* the start package is ordered, a cycle behind it is left out
C7_Witness ==
    /\ pc = "ordered"
    /\ load_order # <<>>
    /\ Residual # {}
    /\ Range(load_order) = all_packages \ Residual

(***************************************************************************)
(* C8                                                                      *)
(***************************************************************************)
\* C8 as stated: the returned load order contains the start package.
C8_RootInLoadOrder ==
    pc = "ordered" => start_package \in Range(load_order)

\* C8 amended: the returned load order contains the start package exactly
\* when no recorded edge points at the start package; a source in which
\* some expanded package depends back on the start package leaves it out.
C8_RootInLoadOrderIffNoDependent ==
    pc = "ordered" =>
        (start_package \in Range(load_order)
            <=> start_package \notin Successors(dependency_graph, Packages))

\* another package depends back on the start package, which is left out
C8_Witness ==
    /\ pc = "ordered"
    /\ start_package \notin Range(load_order)
    /\ \E p \in Packages \ {start_package} :
          start_package \in Targets(dependency_graph, p)

(***************************************************************************)
(* C9                                                                      *)
(***************************************************************************)
\* the source with every failing package answering the empty mapping
SourceWithoutFailures == [p \in Packages |-> source[p].deps]

EmptyBuild ==
    [graph |-> [p \in Packages |-> <<>>], all |-> {}, cycle |-> FALSE]

Failing == {x \in Packages : source[x].state = "failed"}

\* C9: when the source fails for packages during a build, the build still
\* returns normally, a failing package has no edges, and the dependency
\* graph, the package set and the Cycle Flag are those of a build over the
\* source in which the failing packages have no dependencies: the later
\* siblings and the ancestors' remaining dependencies are recorded and
\* expanded all the same.
C9_FailureIsLocal ==
    pc = "built" =>
        LET ref == Expand(SourceWithoutFailures, start_package, 0, <<>>, EmptyBuild)
        IN  /\ \A x \in Failing : dependency_graph[x] = <<>>
            /\ dependency_graph = ref.graph
            /\ all_packages = ref.all
            /\ cycle_detected = ref.cycle

\* B fails below A, and its later sibling C is recorded and expanded
C9_Witness ==
    /\ pc = "built"
    /\ "B" \in Failing
    /\ [kind |-> "error", pkg |-> "B", path |-> <<>>] \in diagnostics
    /\ Len(dependency_graph["A"]) = 2
    /\ dependency_graph["A"][1][1] = "B"
    /\ dependency_graph["A"][2][1] = "C"
    /\ dependency_graph["C"] # <<>>

(***************************************************************************)
(* C10                                                                     *)
(***************************************************************************)
Pruned(f) == f.depth >= max_depth \/ f.pkg \in Range(f.path)

\* C10: an invocation whose depth is >= max_depth or whose package is on the
\* current path returns without calling the source and without recording
\* anything: the dependency graph, the package set and the number of calls
\* of the source are unchanged by it.
C10_PrunedInvocationIsInert ==
    [][(pc = "build" /\ stack # <<>> /\ Top.kind = "call" /\ Pruned(Top)) =>
          /\ dependency_graph' = dependency_graph
          /\ all_packages' = all_packages
          /\ source_calls' = source_calls
          /\ source' = source
          /\ stack' = Tail(stack)]_vars

\* a build in which one invocation was cut by the depth bound and another
\* by the path check
C10_Witness ==
    /\ pc = "built"
    /\ \E i \in invocations : i.depth >= max_depth /\ ~i.revisit
    /\ \E i \in invocations : i.depth < max_depth /\ i.revisit

(***************************************************************************)
(* C11                                                                     *)
(***************************************************************************)
\* C11: when the dependency relation of the source, over the packages the
\* build asked for, has no cycle, the Cycle Flag is false: a package met on
\* several independent branches is not reported as a cycle.
C11_NoFalseCycle ==
    cycle_detected => HasCycle(SourceGraph)

\* an acyclic source in which one package was expanded on two branches
C11_Witness ==
    /\ pc = "built"
    /\ ~HasCycle(SourceGraph)
    /\ ~cycle_detected
    /\ \E p \in Packages : source_calls[p] >= 2

(***************************************************************************)
(* C12                                                                     *)
(***************************************************************************)
\* C12: a build with max_depth = 1 records exactly the direct dependencies
\* of the start package, in the order of the source, and no edge of any
\* other package.
C12_DepthOneDirectOnly ==
    (pc = "built" /\ max_depth = 1) =>
        /\ dependency_graph[start_package] = source[start_package].deps
        /\ \A p \in Packages \ {start_package} : dependency_graph[p] = <<>>

C12_Witness ==
    /\ pc = "built"
    /\ max_depth = 1
    /\ Len(dependency_graph[start_package]) = 2
    /\ dependency_graph[start_package][1][1] = "C"

(***************************************************************************)
(* The tree the renderer is to print, as a function of the graph.          *)
(***************************************************************************)
RECURSIVE Flatten(_)
Flatten(ss) == IF ss = <<>> THEN <<>> ELSE Head(ss) \o Flatten(Tail(ss))

IsPrefix(s, t) == Len(s) <= Len(t) /\ s = SubSeq(t, 1, Len(s))

\* what is shown after the name for the constraint v
Shown(v, versions) == IF versions /\ v # "*" THEN <<" (", v, ")">> ELSE <<>>

\* the lines for node and everything below it, down to `fuel` further levels:
\* own line = prefix, connector, name (and the constraint when `versions`),
\* then the children in edge-list order, the last one marked as last, under
\* the prefix extended by four spaces after a last child and by a bar and
\* three spaces otherwise
RECURSIVE Subtree(_, _, _, _, _, _, _)
Subtree(g, node, shown, prefix, is_last, versions, fuel) ==
    LET own  == prefix \o <<IF is_last THEN ConnectorLast ELSE ConnectorMid, node>>
                       \o shown
        ext  == Append(prefix, IF is_last THEN IndentLast ELSE IndentMid)
        kids == IF fuel = 0 THEN <<>>
                ELSE [i \in DOMAIN g[node] |->
                        Subtree(g, g[node][i][1], Shown(g[node][i][2], versions),
                                ext, i = Len(g[node]), versions, fuel - 1)]
    IN  <<own>> \o Flatten(kids)

ExpectedTree(versions) ==
    TreeHeader \o Subtree(dependency_graph, start_package, <<>>, <<>>, TRUE,
                          versions, RecursionLimit - 1)

(***************************************************************************)
(* C13                                                                     *)
(***************************************************************************)
\* C13: in the finished tree rendering every child line whose edge has a
\* constraint other than "*" shows the constraint in parentheses after the
\* name, and every child line whose constraint is "*" shows the bare name.
C13_ConstraintShown ==
    pc = "rendered" => tree_lines = ExpectedTree(TRUE)

(***************************************************************************)
(* C14                                                                     *)
(***************************************************************************)
\* the package names on the printed tree lines, in order
PrintedNames ==
    [i \in 1..(Len(tree_lines) - Len(TreeHeader)) |->
        LET line == tree_lines[i + Len(TreeHeader)] IN line[Len(line)]]

TimesPrinted(n) == Cardinality({i \in DOMAIN PrintedNames : PrintedNames[i] = n})

\* number of chains of recorded edge entries that lead from u to n
RECURSIVE Chains(_, _, _)
RECURSIVE ChainsVia(_, _, _)
Chains(g, u, n) == (IF u = n THEN 1 ELSE 0) + ChainsVia(g, g[u], n)

ChainsVia(g, deps, n) ==
    IF deps = <<>> THEN 0
    ELSE Chains(g, Head(deps)[1], n) + ChainsVia(g, Tail(deps), n)

\* C14: when the tree renderer has ended, the set of names it printed is the
\* set of packages reachable from the start package through recorded edges,
\* and each package is printed once per chain of recorded edges leading to
\* it (on a stored cycle there is no end of such chains, so no output has
\* them all).
C14_TreeShowsReachable ==
    pc \in {"rendered", "failed"} =>
        /\ Range(PrintedNames) = Closure(dependency_graph, {start_package})
        /\ IF HasCycle(dependency_graph) THEN FALSE
           ELSE \A n \in Packages :
                  TimesPrinted(n) = Chains(dependency_graph, start_package, n)

(***************************************************************************)
(* C15                                                                     *)
(***************************************************************************)
\* C15: every line the tree renderer prints is prefix, connector, name; the
\* connector is the last-child one exactly for the last entry of the
\* parent's edge list (and for the root), children come in edge-list order,
\* and a child's prefix is its parent's prefix extended by four spaces if
\* the parent was a last child and by a bar plus three spaces otherwise:
\* what is printed is at every moment an initial part of that tree, and all
\* of it when the renderer returns.
C15_TreeShape ==
    pc \in {"tree", "rendered", "failed"} =>
        /\ IsPrefix(tree_lines, ExpectedTree(FALSE))
        /\ pc = "rendered" => tree_lines = ExpectedTree(FALSE)

\* a finished tree with a inner node that is not a last child, so that both
\* connectors and both prefix extensions occur
C15_Witness ==
    /\ pc = "rendered"
    /\ \E i \in DOMAIN tree_lines :
          /\ Len(tree_lines[i]) = 4
          /\ tree_lines[i][2] = IndentMid
          /\ tree_lines[i][3] = ConnectorLast
    /\ \E i \in DOMAIN tree_lines :
          /\ Len(tree_lines[i]) = 4
          /\ tree_lines[i][2] = IndentLast
          /\ tree_lines[i][3] = ConnectorLast

(***************************************************************************)
(* C16                                                                     *)
(***************************************************************************)
DotLinesOf(k) == {i \in DOMAIN dot_lines : dot_lines[i].kind = k}

NodeLines(p) == {i \in DotLinesOf("node") : dot_lines[i].a = p}

EdgeLines(u, v, label) ==
    {i \in DotLinesOf("edge") :
        dot_lines[i].a = u /\ dot_lines[i].b = v /\ dot_lines[i].label = label}

Entries(u, v, label) ==
    {k \in DOMAIN dependency_graph[u] : dependency_graph[u][k] = <<v, label>>}

Endpoints ==
    {p \in Packages : dependency_graph[p] # <<>>}
        \cup Successors(dependency_graph, Packages)

\* C16: in the graph description every package that is the source or the
\* target of a recorded edge has exactly one node declaration, every
\* recorded edge entry has exactly one edge declaration with its version
\* constraint as label, and every edge declaration names declared nodes.
C16_DotDeclarations ==
    pc = "dot" =>
        /\ \A p \in Endpoints : Cardinality(NodeLines(p)) = 1
        /\ \A u, v \in Packages : \A label \in {"*", "^1.0"} :
              Cardinality(EdgeLines(u, v, label)) = Cardinality(Entries(u, v, label))
        /\ Cardinality(DotLinesOf("edge")) =
              SumLen([p \in Packages |-> [deps |-> dependency_graph[p]]], Packages)
        /\ \A i \in DotLinesOf("edge") :
              NodeLines(dot_lines[i].a) # {} /\ NodeLines(dot_lines[i].b) # {}

\* a description of a graph with an edge stored twice and a leaf target
C16_Witness ==
    /\ pc = "dot"
    /\ \E u, v \in Packages : \E label \in {"*", "^1.0"} :
          Cardinality(EdgeLines(u, v, label)) = 2
    /\ \E p \in Endpoints : dependency_graph[p] = <<>>

(***************************************************************************)
(* C17                                                                     *)
(***************************************************************************)
\* C17: in the graph description the start package is declared exactly
\* once, with the distinct fill attribute, and no other package's
\* declaration carries that attribute.
C17_StartNodeDistinct ==
    pc = "dot" =>
        /\ Cardinality(NodeLines(start_package)) = 1
        /\ \A i \in DotLinesOf("node") :
              (dot_lines[i].label = StartFill) <=> (dot_lines[i].a = start_package)

\* a description in which the start package is also the target of an edge
C17_Witness ==
    /\ pc = "dot"
    /\ start_package \in Successors(dependency_graph, Packages)
    /\ Cardinality(DotLinesOf("node")) >= 3

(***************************************************************************)
(* C18                                                                     *)
(***************************************************************************)
\* the conditions under which validation is to yield an error
Invalid ==
    \/ max_depth < 1
    \/ args.package # None /\ args.test_repo # None
    \/ args.package = None /\ args.test_repo = None
    \/ args.url = "other"
    \/ args.test_repo = "missing"

Reported(k) == {d \in diagnostics : d.kind = k}

NothingTraversed ==
    /\ \A p \in Packages : source_calls[p] = 0 /\ dependency_graph[p] = <<>>
    /\ invocations = {}

LargeDepthTraversed ==
    /\ max_depth = 11
    /\ pc = "built"
    /\ Reported("warning") # {}
    /\ \E p \in Packages \ {start_package} : dependency_graph[p] # <<>>

(***************************************************************************)
(* C19                                                                     *)
(***************************************************************************)
\* C19: a command line with both an existing fixture file and a package
\* name (valid depth and url) is accepted by validation, and the analysis
\* runs on the named package with the fixture as dependency source.
C19_FixtureWithPackageAccepted ==
    (/\ args.package # None
     /\ args.test_repo = "present"
     /\ args.url = "http"
     /\ max_depth >= 1)
    => /\ pc # "exit1"
       /\ pc # "start" => start_package = args.package

(***************************************************************************)
(* C20                                                                     *)
(***************************************************************************)
\* C20: whenever get_direct_dependencies was called for a package the
\* dependency source does not have, registry or fixture, the call failed
\* and the builder reported the error for that package, and the package was
\* not expanded as one with an empty dependency mapping.
C20_UnknownPackageFails ==
    \A p \in Packages :
        (source[p].state = "absent" /\ source_calls[p] > 0) =>
            /\ [kind |-> "error", pkg |-> p, path |-> <<>>] \in diagnostics
            /\ \A i \in DOMAIN stack :
                  ~(stack[i].kind = "loop" /\ stack[i].pkg = p)

(***************************************************************************)
(* C21                                                                     *)
(***************************************************************************)
\* C21: calculate_load_order called again on the unmodified graph returns
\* the sequence it returned before, and no step of a call changes the
\* dependency graph, the package set or the cycle flag.
C21_LoadOrderIdempotent ==
    [][/\ (pc = "kahn" \/ pc' = "kahn") =>
            UNCHANGED <<dependency_graph, graph_keys, all_packages, cycle_detected>>
       /\ (returned # <<>> /\ returned' # returned) =>
            /\ returned' = Append(returned, returned[Len(returned)])
            /\ load_order' = load_order]_vars

\* a second call has returned, on a graph with a diamond
C21_Witness ==
    /\ Len(returned) = 2
    /\ Len(returned[2]) >= 3
    /\ pc = "ordered"
    /\ \E n \in Packages : in_degree[n] = 0 /\ InDegree(dependency_graph)[n] >= 2

(***************************************************************************)
(* C22                                                                     *)
(***************************************************************************)
\* the names in an edge list
Names(deps) == [i \in DOMAIN deps |-> deps[i][1]]

\* in-degrees after one more edge into each node of the list ns was used up
RECURSIVE UseUp(_, _)
UseUp(deg, ns) ==
    IF ns = <<>> THEN deg
    ELSE UseUp([deg EXCEPT ![Head(ns)] = @ - 1], Tail(ns))

\* the nodes of ns in the order in which their in-degree reaches zero
RECURSIVE ReachZero(_, _)
ReachZero(deg, ns) ==
    IF ns = <<>> THEN <<>>
    ELSE LET d == [deg EXCEPT ![Head(ns)] = @ - 1]
         IN  (IF d[Head(ns)] = 0 THEN <<Head(ns)>> ELSE <<>>)
                \o ReachZero(d, Tail(ns))

\* first in, first out: the oldest waiting node is output next, and the
\* nodes its edges bring to in-degree zero wait behind all that wait already
RECURSIVE Fifo(_, _, _, _)
Fifo(graph, deg, waiting, out) ==
    IF waiting = <<>> THEN out
    ELSE LET ns == Names(graph[Head(waiting)])
         IN  Fifo(graph, UseUp(deg, ns),
                  Tail(waiting) \o ReachZero(deg, ns),
                  Append(out, Head(waiting)))

\* recorded packages no stored edge points at
Unreferenced ==
    {n \in all_packages : \A p \in Packages : Occurrences(dependency_graph[p], n) = 0}

\* C22: for a graph produced by the builder the load order is determined by
\* the stored edge lists alone: at most one package starts with in-degree
\* zero, so the iteration order of the package set has no choice to make,
\* and the returned sequence lists the nodes in the order in which their
\* in-degree reaches zero, first in first out; for the graph with the edges
\* A->B, A->C, C->B it is A, C, B.
C22_LoadOrderDetermined ==
    pc = "ordered" =>
        /\ Cardinality(Unreferenced) <= 1
        /\ load_order =
              Fifo(dependency_graph,
                   [n \in Packages |-> EntriesInto(dependency_graph, Packages, n)],
                   IF Unreferenced = {} THEN <<>>
                   ELSE <<CHOOSE n \in Unreferenced : TRUE>>, <<>>)
        /\ (/\ Names(dependency_graph["A"]) = <<"B", "C">>
            /\ Names(dependency_graph["C"]) = <<"B">>
            /\ dependency_graph["B"] = <<>>
            /\ dependency_graph["E"] = <<>>)
           => load_order = <<"A", "C", "B">>

\* the load order of the graph with the edges A->B, A->C, C->B
C22_Witness ==
    /\ pc = "ordered"
    /\ Names(dependency_graph["A"]) = <<"B", "C">>
    /\ Names(dependency_graph["C"]) = <<"B">>
    /\ dependency_graph["B"] = <<>>
    /\ dependency_graph["E"] = <<>>
    /\ load_order = <<"A", "C", "B">>

(***************************************************************************)
(* C23                                                                     *)
(***************************************************************************)
\* the queue of calculate_load_order has drained
Drained == (pc = "kahn" /\ queue = <<>>) \/ pc = "ordered"

\* the while loop has run at least once or found nothing to do
Emitted == IF pc = "kahn" THEN Range(order) ELSE Range(load_order)

\* C23 as stated: after the queue drains, the nodes that retain a nonzero
\* in-degree are exactly the nodes that lie on a directed cycle of the graph.
C23_ResidualIsOnCycle ==
    Drained =>
        \A n \in Packages :
            in_degree[n] # 0 <=> OnCycle(dependency_graph, n)

\* C23 amended: after the queue drains, the nodes that retain a nonzero
\* in-degree are exactly the nodes that lie on a directed cycle of the graph
\* or can be reached from one, and what each retains is the number of edge
\* entries that point at it from nodes that were not output.
C23_ResidualIsBehindCycle ==
    Drained =>
        \A n \in Packages :
            /\ in_degree[n] # 0 <=>
                  \E c \in Packages :
                      /\ OnCycle(dependency_graph, c)
                      /\ n \in Closure(dependency_graph, {c})
            /\ in_degree[n] =
                  EntriesInto(dependency_graph, Packages \ Emitted, n)

\* the queue has drained and left a node that is reachable from a cycle but
\* lies on none
C23_Witness ==
    /\ Drained
    /\ Emitted # {}
    /\ \E n \in Packages :
          /\ in_degree[n] # 0
          /\ ~OnCycle(dependency_graph, n)

(***************************************************************************)
(* C24                                                                     *)
(***************************************************************************)
\* the builder has been called for start_package and has not run yet
BeforeBuild == pc = "build" /\ invocations = {}

\* what one build from start_package over the source produces
OneBuild ==
    Expand([p \in Packages |-> source[p].deps], start_package, 0, <<>>, EmptyBuild)

\* C24: in a run that analyses several packages one after the other, the
\* dependency graph, the package set, the load order and the cycle flag are
\* empty/false immediately before each build, after each build they hold
\* what a build from that start package alone produces, and the configured
\* max depth never changes, so it is the same after the demonstration as
\* before it.
C24_EachBuildStartsFresh ==
    /\ [](/\ BeforeBuild =>
              /\ dependency_graph = [p \in Packages |-> <<>>]
              /\ graph_keys = <<>>
              /\ all_packages = {}
              /\ load_order = <<>>
              /\ ~cycle_detected
          /\ pc = "built" =>
              /\ dependency_graph = OneBuild.graph
              /\ all_packages = OneBuild.all
              /\ cycle_detected = OneBuild.cycle
              /\ example > 0 => load_order = <<>>
          /\ pc = "done" => max_depth = original_max_depth)
    /\ [][max_depth' = max_depth]_vars

\* the third demonstration build has ended with edges of its own, after an
\* earlier analysis had recorded a cycle and packages this one does not
\* reach
C24_Witness ==
    /\ pc = "built"
    /\ example = Len(DemonstrationPackages)
    /\ dependency_graph[start_package] # <<>>
    /\ ~cycle_detected
    /\ "A" \notin all_packages
    /\ \E d \in diagnostics : d.kind = "cycle" /\ d.pkg = "A"

(***************************************************************************)
(* C25                                                                     *)
(***************************************************************************)
\* the invocations on the stack that have passed the depth and cycle checks
Expanding == {i \in DOMAIN stack : stack[i].kind = "loop"}

\* C25: a top-level build terminates, and at every moment of it the number
\* of nested expansions that have passed the depth and cycle checks, which
\* is the length of the traversal path, is at most max_depth.
C25_BuildTerminatesWithinDepth ==
    /\ [](/\ Cardinality(Expanding) <= max_depth
          /\ \A i \in DOMAIN stack : Len(stack[i].path) <= max_depth
          /\ \A i \in Expanding :
                Len(stack[i].path) = Cardinality({j \in Expanding : j >= i}))
    /\ <>(pc = "built")

\* a build over a cyclic source at its deepest: max_depth nested expansions
C25_Witness ==
    /\ pc = "build"
    /\ max_depth = MaxDepthBound
    /\ Cardinality(Expanding) = max_depth
    /\ cycle_detected

(***************************************************************************)
(* C26                                                                     *)
(***************************************************************************)
\* k copies of the list deps, one after the other
RECURSIVE Copies(_, _)
Copies(deps, k) == IF k = 0 THEN <<>> ELSE deps \o Copies(deps, k - 1)

\* expansions of p that passed the checks and whose source call succeeded
Expansions(p) == IF source[p].state = "ok" THEN source_calls[p] ELSE 0

\* C26: after a build the edge list stored for each package is as many
\* copies of the source's ordered dependency list of the package, one after
\* the other, as the package had expansions that passed the depth and cycle
\* checks and whose source call succeeded.
C26_EdgeListIsCopies ==
    pc = "built" =>
        \A p \in Packages :
            dependency_graph[p] = Copies(source[p].deps, Expansions(p))

\* a diamond: a package shared by two parents was expanded twice and has
\* its own edge stored twice, next to a package with two edges in source order
C26_Witness ==
    /\ pc = "built"
    /\ \E p \in Packages \ {start_package} :
          /\ Expansions(p) = 2
          /\ source[p].deps # <<>>
          /\ Len(dependency_graph[p]) = 2 * Len(source[p].deps)
    /\ Len(dependency_graph[start_package]) = 2

(***************************************************************************)
(* C27                                                                     *)
(***************************************************************************)
\* C27: for every graph produced by the builder the tree renderer started
\* at the start package returns after finitely many lines: its recursion
\* never nests deeper than there are recorded packages, and it never ends
\* in the interpreter's RecursionError.
C27_TreeRendererReturns ==
    /\ pc = "tree" =>
          Cardinality({i \in DOMAIN tree_stack : tree_stack[i].kind = "loop"})
              <= Cardinality(all_packages)
    /\ ~(pc = "failed" /\ tree_lines # <<>>)

(***************************************************************************)
(* C28                                                                     *)
(***************************************************************************)
\* C28 as stated: whenever the cycle flag is false after a build, the stored
\* graph has no directed cycle and calculate_load_order returns every
\* recorded package.
C28_UnflaggedMeansAcyclic ==
    (pc \in {"built", "ordered"} /\ ~cycle_detected) =>
        /\ ~HasCycle(dependency_graph)
        /\ pc = "ordered" => Range(load_order) = all_packages

\* C28 amended: whenever the cycle flag is false after a build, no cycle was
\* reported and no traversal path closed on itself below max depth; the
\* stored graph can still have a directed cycle, and calculate_load_order
\* returns every recorded package exactly when it has none.
C28_UnflaggedMeansNoRevisitBelowDepth ==
    (pc \in {"built", "ordered"} /\ ~cycle_detected) =>
        /\ Cycles = {}
        /\ \A i \in invocations : i.revisit => i.depth >= max_depth
        /\ pc = "ordered" =>
              (Range(load_order) = all_packages <=> ~HasCycle(dependency_graph))

\* flag false, no path ever closed on itself, and yet the stored graph has a
\* cycle and the load order leaves packages out
C28_Witness ==
    /\ pc = "ordered"
    /\ ~cycle_detected
    /\ \A i \in invocations : ~i.revisit
    /\ HasCycle(dependency_graph)
    /\ Range(load_order) # all_packages

(***************************************************************************)
(* C29                                                                     *)
(***************************************************************************)
\* C29: a run with a valid configuration and load-order output enabled does
\* not end in the error exit between computing the load order and
\* rendering: when it has failed, the load order had been printed and a
\* renderer had started.
C29_LoadOrderRunReachesRendering ==
    (flags.load_order /\ pc = "failed") =>
        /\ \A d \in diagnostics : d.kind = "fatal" => d.pkg # "print_load_order"
        /\ tree_lines # <<>> \/ dot_lines # <<>>

(***************************************************************************)
(* C30                                                                     *)
(***************************************************************************)
NoRepeats(s) == \A i, j \in DOMAIN s : s[i] = s[j] => i = j

\* C30: on every stored graph, with edges stored several times and with
\* directed cycles, calculate_load_order outputs each package at most once
\* (no package is waiting twice or waiting again after its output) and no
\* in-degree counter is ever negative.
C30_EachOnceNoNegative ==
    /\ \A n \in Packages : in_degree[n] >= 0
    /\ NoRepeats(order \o queue)
    /\ NoRepeats(load_order)
    /\ \A i \in DOMAIN returned : NoRepeats(returned[i])

\* a load order was computed on a graph with an edge stored twice and a cycle
C30_Witness ==
    /\ pc = "ordered"
    /\ Len(load_order) >= 2
    /\ HasCycle(dependency_graph)
    /\ \E p \in Packages : \E i, j \in DOMAIN dependency_graph[p] :
          i # j /\ dependency_graph[p][i] = dependency_graph[p][j]
====
